---- MODULE Spec2Model ----
(***************************************************************************)
(* Model of guides/ipynb/keras_hub/segment_anything_in_keras_hub.ipynb:    *)
(* the helper inference_resizing (computed in IEEE-754 arithmetic as the   *)
(* notebook computes it: Python floats are binary64, keras tensors are     *)
(* float32), the notebook's prompt / predict / post-processing cells, the  *)
(* drawing helper show_points, the text-prompt section and the             *)
(* benchmarking cell.                                                      *)
(***************************************************************************)
EXTENDS Integers, Sequences, FiniteSets

VARIABLES
    pc,           \* position in the notebook (which cell ran last)
    old_h,        \* height of the picture (the array) that is loaded
    old_w,        \* width of the picture (the array) that is loaded
    content,      \* pixel pattern of the loaded picture (an input)
    pad,          \* the pad argument of the last inference_resizing call
    image,        \* the notebook global `image` (the canvas), or NoTensor
    err,          \* the exception that ended the session, or "none"
    input_point,  \* the notebook global input_point: sequence of <<x, y>>,
                  \* in halves of a pixel (line 300 has y = 213.5)
    input_label,  \* the notebook global input_label: sequence of labels
    input_box,    \* the notebook global input_box: <<<<x0,y0>>,<<x1,y1>>>>
    request,      \* the dictionary handed to model.predict, or NoRequest
    outputs,      \* the dictionary model.predict returned, or NoOutputs
    mask,         \* the notebook global `mask`, or NoTensor
    gca,          \* what has been drawn on plt.gca(), the current axes, in order
    boxes,        \* the notebook global `boxes`: sequence of <<x0,y0,x1,y1>>
    iter,         \* masks consumed so far by the loop over outputs["masks"]
    policy,       \* the global dtype policy of keras
    model,        \* the notebook global `model`
    calls         \* the timed model.predict calls made so far, in order

imageVars == <<old_h, old_w, content, pad, image>>
promptVars == <<input_point, input_label, input_box, request, outputs, mask>>
textVars == <<boxes, iter>>
benchVars == <<policy, model, calls>>
vars == <<pc, err, imageVars, promptVars, gca, textVars, benchVars>>

Max(a, b) == IF a >= b THEN a ELSE b
Min(a, b) == IF a <= b THEN a ELSE b

(***************************************************************************)
(* Natural numbers of any size, as little-endian sequences of limbs below  *)
(* Base with no leading zero limb (zero is << >>).  The model checker's    *)
(* integers are 32 bits wide; a binary64 significand is 53 bits.           *)
(***************************************************************************)
LimbBits == 2 * 3
Base == 2 ^ LimbBits

Limb(a, i) == IF i <= Len(a) THEN a[i] ELSE 0

RECURSIVE BNorm(_)
BNorm(a) ==
    IF a = << >> THEN << >>
    ELSE IF a[Len(a)] = 0 THEN BNorm(SubSeq(a, 1, Len(a) - 1))
    ELSE a

RECURSIVE BFromInt(_)
BFromInt(n) == IF n = 0 THEN << >> ELSE <<n % Base>> \o BFromInt(n \div Base)

RECURSIVE BToInt(_)
BToInt(a) == IF a = << >> THEN 0 ELSE a[1] + Base * BToInt(Tail(a))

RECURSIVE BAddFrom(_, _, _, _)
BAddFrom(a, b, i, c) ==
    IF i > Len(a) /\ i > Len(b)
    THEN (IF c = 0 THEN << >> ELSE <<c>>)
    ELSE LET s == Limb(a, i) + Limb(b, i) + c
         IN  <<s % Base>> \o BAddFrom(a, b, i + 1, s \div Base)

BAdd(a, b) == BAddFrom(a, b, 1, 0)

\* a - b for a >= b
RECURSIVE BSubFrom(_, _, _, _)
BSubFrom(a, b, i, c) ==
    IF i > Len(a) THEN << >>
    ELSE LET s == Limb(a, i) - Limb(b, i) - c
         IN  IF s < 0 THEN <<s + Base>> \o BSubFrom(a, b, i + 1, 1)
             ELSE <<s>> \o BSubFrom(a, b, i + 1, 0)

BSub(a, b) == BNorm(BSubFrom(a, b, 1, 0))

\* -1, 0, 1 as a < b, a = b, a > b
RECURSIVE BCmpFrom(_, _, _)
BCmpFrom(a, b, i) ==
    IF i = 0 THEN 0
    ELSE IF a[i] < b[i] THEN -1
    ELSE IF a[i] > b[i] THEN 1
    ELSE BCmpFrom(a, b, i - 1)

BCmp(a, b) ==
    IF Len(a) < Len(b) THEN -1
    ELSE IF Len(a) > Len(b) THEN 1
    ELSE BCmpFrom(a, b, Len(a))

\* a * k for a small k (k * Base fits the checker's integers)
RECURSIVE BMulSmallFrom(_, _, _, _)
BMulSmallFrom(a, k, i, c) ==
    IF i > Len(a) THEN BFromInt(c)
    ELSE LET s == a[i] * k + c
         IN  <<s % Base>> \o BMulSmallFrom(a, k, i + 1, s \div Base)

BMulSmall(a, k) == IF k = 0 THEN << >> ELSE BMulSmallFrom(a, k, 1, 0)

BShiftLimbs(a, n) == IF a = << >> THEN << >> ELSE [i \in 1..n |-> 0] \o a

RECURSIVE BMul(_, _)
BMul(a, b) ==
    IF b = << >> \/ a = << >> THEN << >>
    ELSE BAdd(BMulSmall(a, b[1]), BShiftLimbs(BMul(a, Tail(b)), 1))

RECURSIVE BitLenSmall(_)
BitLenSmall(n) == IF n = 0 THEN 0 ELSE 1 + BitLenSmall(n \div 2)

BBitLen(a) ==
    IF a = << >> THEN 0
    ELSE LimbBits * (Len(a) - 1) + BitLenSmall(a[Len(a)])

\* bit i (1 = least significant) of a
BBit(a, i) == (Limb(a, ((i - 1) \div LimbBits) + 1) \div (2 ^ ((i - 1) % LimbBits))) % 2

BIsOdd(a) == a # << >> /\ a[1] % 2 = 1

\* a * 2^n
BShl(a, n) == BShiftLimbs(BMulSmall(a, 2 ^ (n % LimbBits)), n \div LimbBits)

\* <<floor(a / k), a mod k>> for a small k (k * Base fits the checker's
\* integers): long division, the high limbs first
RECURSIVE BDivModSmallRaw(_, _)
BDivModSmallRaw(a, k) ==
    IF a = << >> THEN << << >>, 0 >>
    ELSE LET hi  == BDivModSmallRaw(Tail(a), k)
             cur == hi[2] * Base + a[1]
         IN  << <<cur \div k>> \o hi[1], cur % k >>

BDivModSmall(a, k) ==
    LET qr == BDivModSmallRaw(a, k) IN <<BNorm(qr[1]), qr[2]>>

BDivSmall(a, k) == BDivModSmall(a, k)[1]

\* floor(a / 2^n)
BShr(a, n) ==
    IF n \div LimbBits >= Len(a) THEN << >>
    ELSE BDivSmall(SubSeq(a, (n \div LimbBits) + 1, Len(a)), 2 ^ (n % LimbBits))

(***************************************************************************)
(* IEEE-754 binary floating point with round-to-nearest, ties-to-even.     *)
(* A number is [s |-> sign, m |-> significand, e |-> exponent], the value  *)
(* s * m * 2^e; every operation is the exact result rounded to p           *)
(* significant bits.  The notebook's values stay far from the overflow and *)
(* underflow thresholds, which are not modelled.                           *)
(***************************************************************************)
DoublePrecision == 53
SinglePrecision == 24

Float(s, m, e) == [s |-> IF m = << >> THEN 1 ELSE s, m |-> m, e |-> IF m = << >> THEN 0 ELSE e]

FZero == Float(1, << >>, 0)

FromInt(n) == IF n < 0 THEN Float(-1, BFromInt(-n), 0) ELSE Float(1, BFromInt(n), 0)

\* the exact value s * m * 2^e rounded to p bits, ties to even
Round(p, s, m, e) ==
    IF BBitLen(m) <= p THEN Float(s, m, e)
    ELSE LET k    == BBitLen(m) - p
             q    == BShr(m, k)
             rem  == BSub(m, BShl(q, k))
             half == BShl(<<1>>, k - 1)
             c    == BCmp(rem, half)
             up   == c > 0 \/ (c = 0 /\ BIsOdd(q))
         IN  Float(s, IF up THEN BAdd(q, <<1>>) ELSE q, e + k)

FMul(p, a, b) == Round(p, a.s * b.s, BMul(a.m, b.m), a.e + b.e)

FNeg(a) == Float(-a.s, a.m, a.e)

FAdd(p, a, b) ==
    LET e  == Min(a.e, b.e)
        am == BShl(a.m, a.e - e)
        bm == BShl(b.m, b.e - e)
    IN  IF a.m = << >> THEN Round(p, b.s, b.m, b.e)
        ELSE IF b.m = << >> THEN Round(p, a.s, a.m, a.e)
        ELSE IF a.s = b.s THEN Round(p, a.s, BAdd(am, bm), e)
        ELSE IF BCmp(am, bm) >= 0 THEN Round(p, a.s, BSub(am, bm), e)
        ELSE Round(p, b.s, BSub(bm, am), e)

FSub(p, a, b) == FAdd(p, a, FNeg(b))

\* a / b for b # 0: the quotient to p + 2 bits and more, with a sticky bit.
\* The divisors of the notebook are integers below 2^24 and float32 values,
\* whose significands fit the checker's integers.
FDiv(p, a, b) ==
    IF a.m = << >> THEN FZero
    ELSE LET k  == Max(0, p + 2 + BBitLen(b.m) - BBitLen(a.m))
             qr == BDivModSmall(BShl(a.m, k), BToInt(b.m))
             m  == BAdd(BAdd(qr[1], qr[1]), IF qr[2] = 0 THEN << >> ELSE <<1>>)
         IN  Round(p, a.s * b.s, m, a.e - b.e - k - 1)

\* equality of values
FEq(a, b) ==
    LET e == Min(a.e, b.e)
    IN  a.s = b.s /\ BShl(a.m, a.e - e) = BShl(b.m, b.e - e)

\* Python's int(): truncation toward zero
Trunc(a) ==
    IF a.e >= 0 THEN a.s * BToInt(BShl(a.m, a.e))
    ELSE a.s * BToInt(BShr(a.m, -a.e))

\* abs(), the sign (-1, 0, 1) of a value, and the comparison of two values
\* (-1: a < b, 0: a = b, 1: a > b)
FAbs(a) == Float(1, a.m, a.e)
FSign(a) == IF a.m = << >> THEN 0 ELSE a.s
FCmp(a, b) ==
    LET e == Min(a.e, b.e)
    IN  IF FSign(a) # FSign(b) THEN (IF FSign(a) < FSign(b) THEN -1 ELSE 1)
        ELSE FSign(a) * BCmp(BShl(a.m, a.e - e), BShl(b.m, b.e - e))

(***************************************************************************)
(* Tensors.  A tensor of a million elements is kept as the description of  *)
(* how it was made, and ElementAt computes any one element from it:        *)
(*   "array"   an array as loaded or as returned by the model; its         *)
(*             elements are the integers of the pattern `content`;         *)
(*   "resized" the result of ops.image.resize;                             *)
(*   "canvas"  the result of normalise, ops.pad and denormalise.           *)
(***************************************************************************)
NoTensor == [kind |-> "none"]

Array(h, w, c, cont, samples) ==
    [kind |-> "array", shape |-> <<h, w, c>>, content |-> cont, samples |-> samples]

\* Element values of the sample arrays: 8-bit pixel values of a picture, and
\* logits of a mask returned by the model.
PixelSamples == <<0, 1, 42, 200, 255>>
LogitSamples == <<-3, 0, 2>>

\* Element (r, c, ch) of the array with pattern `cont` (indices from 0).
SourceAt(samples, cont, r, c, ch) ==
    samples[((cont + r + 2 * c + 3 * ch) % Len(samples)) + 1]

\* np.array(keras.utils.load_img(...)): an RGB picture of 8-bit values.
Picture(h, w, cont) == Array(h, w, 3, cont, PixelSamples)

(***************************************************************************)
(* inference_resizing: the shape computation.                              *)
(***************************************************************************)
CanvasSize == 1024

FOne == FromInt(1)
FHalf == Float(1, <<1>>, -1)

\* scale = 1024 * 1.0 / max(old_h, old_w), for max(old_h, old_w) # 0
Scale(h, w) ==
    FDiv(DoublePrecision,
         FMul(DoublePrecision, FromInt(CanvasSize), FOne),
         FromInt(Max(h, w)))

\* new_h = old_h * scale; new_w = old_w * scale
\* preprocess_shape = int(new_h + 0.5), int(new_w + 0.5)
PreprocessShape(h, w) ==
    LET scale == Scale(h, w)
        new_h == FMul(DoublePrecision, FromInt(h), scale)
        new_w == FMul(DoublePrecision, FromInt(w), scale)
    IN  <<Trunc(FAdd(DoublePrecision, new_h, FHalf)),
          Trunc(FAdd(DoublePrecision, new_w, FHalf))>>

\* ops.image.resize(image[None, ...], preprocess_shape)[0]: a tensor of the
\* requested height and width with the channels of the input.
Resize(img, size) ==
    [kind |-> "resized", shape |-> <<size[1], size[2], img.shape[3]>>, src |-> img]

(***************************************************************************)
(* The elements ops.image.resize computes.  The notebook selects the jax   *)
(* backend, where ops.image.resize is jax.image.resize with the method     *)
(* "bilinear" and antialias=False: for each axis whose size changes, a     *)
(* matrix of float32 weights (a triangle kernel around the sample          *)
(* position, normalised to sum 1), contracted with the image.  An axis     *)
(* whose size does not change is left alone.                               *)
(***************************************************************************)
\* inv_scale = 1. / scale with scale = n / m (m the input size, n the output
\* size), computed in binary64 and used as a float32: for the sizes of the
\* notebook (m < 2^24, n <= 1024) that is m / n rounded to float32 once.
InvScale(m, n) == FDiv(SinglePrecision, FromInt(m), FromInt(n))

\* sample_f[j] = (j + 0.5) * inv_scale - 0.5
SampleF(m, n, j) ==
    FSub(SinglePrecision,
         FMul(SinglePrecision, FAdd(SinglePrecision, FromInt(j), FHalf), InvScale(m, n)),
         FHalf)

\* the triangle kernel at input index i: max(0, 1 - abs(sample_f - i))
TriangleWeight(sf, i) ==
    LET w == FSub(SinglePrecision, FOne, FAbs(FSub(SinglePrecision, sf, FromInt(i))))
    IN  IF FSign(w) > 0 THEN w ELSE FZero

\* the sum of w[i] * val[i] over the indices idx, in ascending order
RECURSIVE WeightedSum(_, _, _)
WeightedSum(idx, w, val) ==
    IF idx = {} THEN FZero
    ELSE LET hi == CHOOSE i \in idx : \A k \in idx : k <= i
         IN  FAdd(SinglePrecision, WeightedSum(idx \ {hi}, w, val),
                  FMul(SinglePrecision, w[hi], val[hi]))

\* Column j of the weight matrix of an axis resized from m to n: the input
\* indices with a weight other than 0, and their weights.  The weights are
\* divided by their sum when it exceeds 1000 * eps, and are all 0 when the
\* sample position lies outside [-0.5, m - 0.5].
AxisWeights(m, n, j) ==
    IF m = n THEN [i \in {j} |-> FOne]
    ELSE LET sf    == SampleF(m, n, j)
             t     == Trunc(sf)
             raw   == [i \in {k \in {t - 1, t, t + 1} : k >= 0 /\ k < m} |->
                          TriangleWeight(sf, i)]
             nz    == {i \in DOMAIN raw : FSign(raw[i]) # 0}
             total == WeightedSum(nz, raw, [i \in nz |-> FOne])
             ok    == /\ FCmp(total, Float(1, BFromInt(1000), 1 - SinglePrecision)) > 0
                      /\ FCmp(sf, FNeg(FHalf)) >= 0
                      /\ FCmp(sf, Float(1, BFromInt(2 * m - 1), -1)) <= 0
         IN  IF ok THEN [i \in nz |-> FDiv(SinglePrecision, raw[i], total)]
             ELSE [i \in {} |-> FZero]

(***************************************************************************)
(* inference_resizing: normalise, pad, denormalise (float32 tensors).      *)
(***************************************************************************)
\* A Python float literal given in thousandths, as ops.array stores it:
\* the binary64 nearest to the decimal, cast to float32.
Cast32(x) == Round(SinglePrecision, x.s, x.m, x.e)
Literal32(thousandths) ==
    Cast32(FDiv(DoublePrecision, FromInt(thousandths), FromInt(1000)))

\* pixel_mean = ops.array([123.675, 116.28, 103.53])
pixel_mean == <<Literal32(123675), Literal32(116280), Literal32(103530)>>
\* pixel_std = ops.array([58.395, 57.12, 57.375])
pixel_std == <<Literal32(58395), Literal32(57120), Literal32(57375)>>

\* image = (image - pixel_mean) / pixel_std, on channel ch (from 0)
Normalize(x, ch) ==
    FDiv(SinglePrecision, FSub(SinglePrecision, x, pixel_mean[ch + 1]), pixel_std[ch + 1])

\* image = image * pixel_std + pixel_mean
Denormalize(x, ch) ==
    FAdd(SinglePrecision, FMul(SinglePrecision, x, pixel_std[ch + 1]), pixel_mean[ch + 1])

\* The pad widths handed to ops.pad: [(0, pad_h), (0, pad_w), (0, 0)] with
\* pad_h = 1024 - h and pad_w = 1024 - w; each pair is <<before, after>>.
PadWidthsSwapped(h, w) == << <<0, CanvasSize - w>>, <<0, CanvasSize - h>>, <<0, 0>> >>
PadWidthsBefore(h, w) == << <<CanvasSize - h, 0>>, <<CanvasSize - w, 0>>, <<0, 0>> >>
PadWidths(h, w) == << <<0, CanvasSize - h>>, <<0, CanvasSize - w>>, <<0, 0>> >>

\* ops.pad(image, widths): constant mode, the constant 0.
PadValue == FZero

\* The `if pad:` branch: the normalised image padded, then denormalised.
PadAndRestore(resized) ==
    LET h  == resized.shape[1]
        w  == resized.shape[2]
        pw == PadWidths(h, w)
    IN  [kind   |-> "canvas",
         shape  |-> <<pw[1][1] + h + pw[1][2], pw[2][1] + w + pw[2][2],
                      pw[3][1] + resized.shape[3] + pw[3][2]>>,
         origin |-> <<pw[1][1], pw[2][1]>>,
         inner  |-> resized]

\* def inference_resizing(image, pad=True)
InferenceResizingMinGuard(img, padarg) ==
    IF Min(img.shape[1], img.shape[2]) = 0
    THEN [kind |-> "raise", error |-> "ZeroDivisionError"]
    ELSE LET resized == Resize(img, PreprocessShape(img.shape[1], img.shape[2]))
         IN  IF padarg THEN PadAndRestore(resized) ELSE resized
InferenceResizingAlwaysPad(img, padarg) ==
    IF Max(img.shape[1], img.shape[2]) = 0
    THEN [kind |-> "raise", error |-> "ZeroDivisionError"]
    ELSE PadAndRestore(Resize(img, PreprocessShape(img.shape[1], img.shape[2])))
InferenceResizing(img, padarg) ==
    IF Max(img.shape[1], img.shape[2]) = 0
    THEN [kind |-> "raise", error |-> "ZeroDivisionError"]
    ELSE LET resized == Resize(img, PreprocessShape(img.shape[1], img.shape[2]))
         IN  IF padarg THEN PadAndRestore(resized) ELSE resized

\* Element (r, c, ch) of a tensor, indices from 0.  An element of a resized
\* tensor is the contraction of the input with the weights of the two axes
\* (the height first, then the width).
RECURSIVE ElementAt(_, _, _, _)
ElementAt(t, r, c, ch) ==
    IF t.kind = "array"
    THEN Cast32(FromInt(SourceAt(t.samples, t.content, r, c, ch)))
    ELSE IF t.kind = "resized"
    THEN LET wh == AxisWeights(t.src.shape[1], t.shape[1], r)
             ww == AxisWeights(t.src.shape[2], t.shape[2], c)
             column == [k \in DOMAIN ww |->
                           WeightedSum(DOMAIN wh, wh,
                                       [i \in DOMAIN wh |-> ElementAt(t.src, i, k, ch)])]
         IN  WeightedSum(DOMAIN ww, ww, column)
    ELSE LET i == r - t.origin[1]
             j == c - t.origin[2]
         IN  IF i >= 0 /\ i < t.inner.shape[1] /\ j >= 0 /\ j < t.inner.shape[2]
             THEN Denormalize(Normalize(ElementAt(t.inner, i, j, ch), ch), ch)
             ELSE Denormalize(PadValue, ch)

(***************************************************************************)
(* Bounds and input sets.                                                  *)
(***************************************************************************)
MaxDim == 3
MaxContent == 2

\* Heights and widths of the arrays handed to inference_resizing: every
\* size up to MaxDim (0 is the empty array) and sizes of pictures, of the
\* model's mask and of very long panoramas.
SpecialDims == {147, 256, 600, 800, 1024, 2049, 100352}
Dims == (0..MaxDim) \cup SpecialDims
Contents == 1..MaxContent

\* The notebook's globals before any cell has run.
NoRequest == [kind |-> "none"]
NoOutputs == [kind |-> "none"]

\* model = keras_hub.models.SAMImageSegmenter.from_preset("sam_huge_sa1b"):
\* the layers of the model take the dtype policy in force when they are
\* created.
DefaultPolicy == "float32"
FromPresetStale(p) == [preset |-> "sam_huge_sa1b", built_under |-> DefaultPolicy]
FromPreset(p) == [preset |-> "sam_huge_sa1b", built_under |-> p]

Idle ==
    /\ input_point = << >>
    /\ input_label = << >>
    /\ input_box = << >>
    /\ request = NoRequest
    /\ outputs = NoOutputs
    /\ mask = NoTensor
    /\ gca = << >>
    /\ boxes = << >>
    /\ iter = 0
    /\ policy = DefaultPolicy
    /\ model = FromPreset(DefaultPolicy)
    /\ calls = << >>

(***************************************************************************)
(* SpecResize: one call inference_resizing(array, pad) on any array.       *)
(***************************************************************************)
InitResize ==
    /\ pc = "call"
    /\ old_h \in Dims
    /\ old_w \in Dims
    /\ content \in Contents
    /\ pad \in BOOLEAN
    /\ image = NoTensor
    /\ err = "none"
    /\ Idle

CallInferenceResizing ==
    /\ pc = "call"
    /\ LET res == InferenceResizing(Picture(old_h, old_w, content), pad)
       IN  IF res.kind = "raise"
           THEN /\ pc' = "raised"
                /\ err' = res.error
                /\ image' = NoTensor
           ELSE /\ pc' = "returned"
                /\ err' = err
                /\ image' = res
    /\ UNCHANGED <<old_h, old_w, content, pad, input_point, input_label,
                   input_box, request, outputs, mask>>
    /\ UNCHANGED <<gca, textVars, benchVars>>

NextResize == CallInferenceResizing

SpecResize == InitResize /\ [][NextResize]_vars

(***************************************************************************)
(* Properties of inference_resizing.                                       *)
(***************************************************************************)
\* The height and width the image had after ops.image.resize.
ResizedShape(t) ==
    IF t.kind = "canvas" THEN <<t.inner.shape[1], t.inner.shape[2]>>
    ELSE <<t.shape[1], t.shape[2]>>

\* The rows and columns ops.pad added after the image.
PadAfter(t) ==
    <<t.shape[1] - t.origin[1] - t.inner.shape[1],
      t.shape[2] - t.origin[2] - t.inner.shape[2]>>

\* Rows (columns) at which elements are compared: the first and the last of
\* the image and of the padding.
ProbesInside(n) == {i \in {0, n - 1} : i >= 0 /\ i < n}
ProbesOutside(n) == {i \in {n, CanvasSize - 1} : i >= n /\ i < CanvasSize}
Channels == 0..2

ReturnedCanvas == pc = "returned" /\ pad

\* C1: for every image with H > 0 and W > 0, inference_resizing(image,
\* pad=True) returns a 1024 x 1024 x 3 tensor, the longer side of the shape
\* resized to is exactly 1024, and the pad amounts pad_h, pad_w are both
\* >= 0 with at least one of them 0.
C1_CanvasShape ==
    (ReturnedCanvas /\ old_h > 0 /\ old_w > 0) =>
        /\ image.shape = <<CanvasSize, CanvasSize, 3>>
        /\ Max(ResizedShape(image)[1], ResizedShape(image)[2]) = CanvasSize
        /\ PadAfter(image)[1] = CanvasSize - ResizedShape(image)[1]
        /\ PadAfter(image)[2] = CanvasSize - ResizedShape(image)[2]
        /\ PadAfter(image)[1] >= 0
        /\ PadAfter(image)[2] >= 0
        /\ (PadAfter(image)[1] = 0 \/ PadAfter(image)[2] = 0)

C1_Witness ==
    /\ ReturnedCanvas
    /\ old_h = 600
    /\ old_w = 800
    /\ ResizedShape(image) = <<768, 1024>>
    /\ PadAfter(image) = <<256, 0>>

\* The round-half-up reference: floor(1024 * n / m + 1/2).
RoundHalfUp(n, m) == (2 * CanvasSize * n + m) \div (2 * m)

\* C2: the resize target equals the round-half-up reference for every
\* H, W > 0: (floor(1024*H/M + 1/2), floor(1024*W/M + 1/2)) with
\* M = max(H, W); an 800 x 600 image goes to (1024, 768) and is padded by
\* 256 columns only.
C2_RoundHalfUpReference ==
    (pc = "returned" /\ old_h > 0 /\ old_w > 0) =>
        /\ ResizedShape(image) = <<RoundHalfUp(old_h, Max(old_h, old_w)),
                                   RoundHalfUp(old_w, Max(old_h, old_w))>>
        /\ (old_h = 800 /\ old_w = 600 /\ pad) =>
               (ResizedShape(image) = <<1024, 768>> /\ PadAfter(image) = <<0, 256>>)

\* C3: in the canvas the padding is at the bottom and the right only: the
\* resized image occupies rows [0, h) and columns [0, w), and every element
\* at a row >= h or a column >= w equals the per-channel mean exactly.
C3_PaddingIsMean ==
    ReturnedCanvas =>
        /\ image.origin = <<0, 0>>
        /\ \A ch \in Channels :
            /\ \A r \in ProbesInside(ResizedShape(image)[1]) :
                 \A c \in ProbesInside(ResizedShape(image)[2]) :
                    FEq(ElementAt(image, r, c, ch),
                        Denormalize(Normalize(ElementAt(image.inner, r, c, ch), ch), ch))
            /\ \A r \in ProbesOutside(ResizedShape(image)[1]) :
                 \A c \in ProbesInside(CanvasSize) :
                    FEq(ElementAt(image, r, c, ch), pixel_mean[ch + 1])
            /\ \A r \in ProbesInside(CanvasSize) :
                 \A c \in ProbesOutside(ResizedShape(image)[2]) :
                    FEq(ElementAt(image, r, c, ch), pixel_mean[ch + 1])

C3_Witness ==
    /\ ReturnedCanvas
    /\ old_h = 800
    /\ old_w = 600
    /\ ResizedShape(image) = <<1024, 768>>
    /\ FEq(ElementAt(image, 0, 768, 0), pixel_mean[1])
    /\ ~FEq(ElementAt(image, 0, 767, 0), pixel_mean[1])

\* C4: for a 1024 x 1024 image inference_resizing(image, pad=True) is the
\* identity on pixel values: the resize target is (1024, 1024), nothing is
\* padded, and each output element equals the input element.
C4_SquareIdentity ==
    (ReturnedCanvas /\ old_h = CanvasSize /\ old_w = CanvasSize) =>
        /\ ResizedShape(image) = <<CanvasSize, CanvasSize>>
        /\ PadAfter(image) = <<0, 0>>
        /\ \A ch \in Channels :
             \A r \in ProbesInside(CanvasSize) :
               \A c \in ProbesInside(CanvasSize) :
                  FEq(ElementAt(image, r, c, ch),
                      ElementAt(Picture(old_h, old_w, content), r, c, ch))

\* C10 as stated: every image with a zero height or a zero width is
\* rejected by the scale computation and no canvas is returned.
C10_RejectsEveryDegenerate ==
    (pc # "call" /\ (old_h = 0 \/ old_w = 0)) =>
        (pc = "raised" /\ err = "ZeroDivisionError" /\ image = NoTensor)

\* C10 amended: the scale computation raises ZeroDivisionError exactly when
\* height and width are both 0, and then nothing is returned; with only one
\* of them 0 the call passes the scale computation and resizes to 0 on that
\* side and 1024 on the other.
C10_RaisesIffBothZero ==
    pc # "call" =>
        /\ (pc = "raised") <=> (old_h = 0 /\ old_w = 0)
        /\ (pc = "raised") => (err = "ZeroDivisionError" /\ image = NoTensor)
        /\ (pc = "returned") => err = "none"
        /\ (old_h = 0 /\ old_w > 0) => ResizedShape(image) = <<0, CanvasSize>>
        /\ (old_h > 0 /\ old_w = 0) => ResizedShape(image) = <<CanvasSize, 0>>

C10_Witness ==
    /\ pc = "raised"
    /\ old_h = 0
    /\ old_w = 0
    /\ err = "ZeroDivisionError"

\* C13: for every image with H > 0 and W > 0 both components of
\* preprocess_shape lie in 1..1024: the shorter side is never rounded down
\* to 0 pixels, whatever the aspect ratio.
C13_ShapeWithinCanvas ==
    (pc = "returned" /\ old_h > 0 /\ old_w > 0) =>
        /\ ResizedShape(image)[1] \in 1..CanvasSize
        /\ ResizedShape(image)[2] \in 1..CanvasSize

(***************************************************************************)
(* The notebook's cells, run top to bottom.  The model follows the         *)
(* notebook's globals.  The figures a cell draws are shown and closed      *)
(* within the cell; an exception raised while drawing ends that cell only, *)
(* with the globals as assigned so far, and the next cell is run.  A run   *)
(* is followed up to the first model.predict that raises.                  *)
(***************************************************************************)
MaxPoints == 2
MaxScore == 2

\* Sizes <<height, width>> of the picture file that is loaded.
Pictures == {<<800, 600>>, <<600, 800>>, <<1024, 1024>>, <<1200, 1800>>}

\* Prompts of the prompt cells and prompts a user may put in their place:
\* one to MaxPoints points, one to MaxPoints labels (1 foreground, 0
\* background), a box.  The points are those of the notebook, (284, 213.5)
\* of line 300 and (325, 425) of line 502, alone or together; coordinates
\* of points are counted in halves of a pixel, so that 213.5 is 427.
PointSamples == << <<568, 427>>, <<650, 850>>, <<568, 427>> >>
PointInputs ==
    {SubSeq(PointSamples, i, j) : i \in 1..MaxPoints, j \in 1..MaxPoints} \ {<< >>}
LabelSamples == <<1, 0, 1>>
LabelInputs == {SubSeq(LabelSamples, i, j) : i \in 1..MaxPoints, j \in 1..MaxPoints} \ {<< >>}
\* The box of lines 461 and 500, as <<<<x0, y0>>, <<x1, y1>>>> in pixels.
BoxInputs == { << <<240, 340>>, <<400, 500>> >> }

\* What the segmentation model returns for a batch of b images: four
\* 256 x 256 logit maps per image and one score per map.
MaskSide == 256
NumMasks == 4
ScoreVectors ==
    {[k \in 1..NumMasks |-> IF k = best THEN MaxScore ELSE 1] : best \in 1..NumMasks}
Responses(b) ==
    {[kind     |-> "outputs",
      masks    |-> [i \in 1..b |->
                      [k \in 1..NumMasks |->
                         Array(MaskSide, MaskSide, 1, seed + k + NumMasks * (i - 1), LogitSamples)]],
      iou_pred |-> [i \in 1..b |-> scores]] :
        seed \in Contents, scores \in ScoreVectors}

\* The dictionary of the point-prompt cell:
\*   "images": image[np.newaxis, ...],
\*   "points": np.concatenate([input_point[np.newaxis, ...], np.zeros((1, 1, 2))], axis=1),
\*   "labels": np.concatenate([input_label[np.newaxis, ...], np.full((1, 1), fill_value=-1)], axis=1)
PointRequestScaled(img, points, labels) ==
    [kind   |-> "request",
     keys   |-> {"images", "points", "labels"},
     images |-> <<img>>,
     points |-> << [i \in 1..Len(points) |-> <<2 * points[i][1], 2 * points[i][2]>>] \o << <<0, 0>> >> >>,
     labels |-> << labels \o <<-1>> >>,
     boxes  |-> << >>]
PointRequestChecked(img, points, labels) ==
    IF Len(points) # Len(labels) THEN NoRequest
    ELSE [kind   |-> "request",
          keys   |-> {"images", "points", "labels"},
          images |-> <<img>>,
          points |-> << points \o << <<0, 0>> >> >>,
          labels |-> << labels \o <<-1>> >>,
          boxes  |-> << >>]
PointRequestPrepended(img, points, labels) ==
    [kind   |-> "request",
     keys   |-> {"images", "points", "labels"},
     images |-> <<img>>,
     points |-> << << <<0, 0>> >> \o points >>,
     labels |-> << <<-1>> \o labels >>,
     boxes  |-> << >>]
PointRequest(img, points, labels) ==
    [kind   |-> "request",
     keys   |-> {"images", "points", "labels"},
     images |-> <<img>>,
     points |-> << points \o << <<0, 0>> >> >>,
     labels |-> << labels \o <<-1>> >>,
     boxes  |-> << >>]

\* The dictionary of the box-prompt cell:
\*   "images": image[np.newaxis, ...], "boxes": input_box[np.newaxis, np.newaxis, ...]
BoxRequest(img, box) ==
    [kind   |-> "request",
     keys   |-> {"images", "boxes"},
     images |-> <<img>>,
     points |-> << >>,
     labels |-> << >>,
     boxes  |-> << <<box>> >>]

\* The dictionary of the combined-prompt cell:
\*   "images", "points": input_point[np.newaxis, ...],
\*   "labels": input_label[np.newaxis, ...], "boxes": input_box[np.newaxis, np.newaxis, ...]
CombinedRequest(img, points, labels, box) ==
    [kind   |-> "request",
     keys   |-> {"images", "points", "labels", "boxes"},
     images |-> <<img>>,
     points |-> <<points>>,
     labels |-> <<labels>>,
     boxes  |-> << <<box>> >>]

\* mask = inference_resizing(outputs["masks"][0][0][..., None], pad=False)[..., 0]
\* mask = ops.convert_to_numpy(mask) > 0.0
Threshold(t, k) ==
    [kind |-> "bool", shape |-> <<t.shape[1], t.shape[2]>>, src |-> t, candidate |-> k]

\* The index (from 1) of the first highest score.
BestScore(scores) ==
    CHOOSE k \in 1..Len(scores) :
        /\ \A j \in 1..Len(scores) : scores[j] <= scores[k]
        /\ \A j \in 1..(k - 1) : scores[j] < scores[k]

PostprocessMaskBestScore(outs) ==
    Threshold(InferenceResizing(outs.masks[1][BestScore(outs.iou_pred[1])], FALSE),
              BestScore(outs.iou_pred[1]))
PostprocessMask(outs) ==
    Threshold(InferenceResizing(outs.masks[1][1], FALSE), 1)

\* mask = 1 * (mask > 0.0): the boolean mask as integers
OneTimes(m) == [kind |-> "int64", shape |-> m.shape, src |-> m.src, candidate |-> m.candidate]

\* Element (r, c) of a boolean mask.
BoolAt(m, r, c) ==
    LET x == ElementAt(m.src, r, c, 0) IN x.s = 1 /\ x.m # << >>

(***************************************************************************)
(* show_points, the helper that draws the point prompts.                  *)
(***************************************************************************)
\* labels == 1 and labels == 0: element-wise comparisons
PosMask(labels) == [i \in 1..Len(labels) |-> labels[i] = 1]
NegMaskNotPositive(labels) == [i \in 1..Len(labels) |-> labels[i] # 1]
NegMask(labels) == [i \in 1..Len(labels) |-> labels[i] = 0]

\* coords[m]: indexing the first axis with a boolean array keeps the rows
\* at which m is True, in order; the caller has checked the lengths.
RECURSIVE BoolIndexFrom(_, _, _)
BoolIndexFrom(coords, m, i) ==
    IF i > Len(coords) THEN << >>
    ELSE (IF m[i] THEN <<coords[i]>> ELSE << >>) \o BoolIndexFrom(coords, m, i + 1)
BoolIndex(coords, m) == BoolIndexFrom(coords, m, 1)

\* ax.scatter(points[:, 0], points[:, 1], color=color, marker="*", ...)
Scatter(points, color) ==
    [kind   |-> "scatter",
     x      |-> [i \in 1..Len(points) |-> points[i][1]],
     y      |-> [i \in 1..Len(points) |-> points[i][2]],
     color  |-> color,
     marker |-> "*"]

\* show_points(coords, labels, ax): numpy raises IndexError when the boolean
\* index is not as long as the axis it indexes, before anything is drawn.
ShowPoints(coords, labels, ax) ==
    IF Len(labels) # Len(coords)
    THEN [kind |-> "raise", error |-> "IndexError"]
    ELSE [kind    |-> "axes",
          artists |-> ax \o <<Scatter(BoolIndex(coords, PosMask(labels)), "green"),
                                Scatter(BoolIndex(coords, NegMask(labels)), "red")>>]

Init ==
    /\ pc = "start"
    /\ \E p \in Pictures : old_h = p[1] /\ old_w = p[2]
    /\ content \in Contents
    /\ pad = TRUE
    /\ image = NoTensor
    /\ err = "none"
    /\ Idle

\* image = np.array(keras.utils.load_img("truck.jpg"))
\* image = inference_resizing(image)
LoadImage ==
    /\ pc = "start"
    /\ LET res == InferenceResizing(Picture(old_h, old_w, content), TRUE)
       IN  IF res.kind = "raise"
           THEN pc' = "error" /\ err' = res.error /\ image' = NoTensor
           ELSE pc' = "image_loaded" /\ err' = err /\ image' = res
    /\ pad' = TRUE
    /\ UNCHANGED <<old_h, old_w, content, input_point, input_label, input_box,
                   request, outputs, mask>>
    /\ UNCHANGED <<gca, textVars, benchVars>>

\* input_point = np.array([[284, 213.5]]); input_label = np.array([1])
DefinePointPrompt ==
    /\ pc = "image_loaded"
    /\ input_point' \in PointInputs
    /\ input_label' \in LabelInputs
    /\ pc' = "point_defined"
    /\ UNCHANGED <<old_h, old_w, content, pad, image, err, input_box, request,
                   outputs, mask>>
    /\ UNCHANGED <<gca, textVars, benchVars>>

\* outputs = model.predict({...}): the dictionary is built and handed over
PredictPoints ==
    /\ pc = "point_defined"
    /\ request' = PointRequest(image, input_point, input_label)
    /\ pc' = "points_sent"
    /\ UNCHANGED <<old_h, old_w, content, pad, image, err, input_point,
                   input_label, input_box, outputs, mask>>
    /\ UNCHANGED <<gca, textVars, benchVars>>

SentStates == {"points_sent", "box_sent", "combined_sent"}
PredictedStates == {"points_predicted", "box_predicted", "combined_predicted"}
ShownStates == {"points_shown", "box_shown", "combined_shown"}

After(p) ==
    CASE p = "points_sent" -> "points_predicted"
      [] p = "box_sent" -> "box_predicted"
      [] p = "combined_sent" -> "combined_predicted"
      [] p = "points_predicted" -> "points_shown"
      [] p = "box_predicted" -> "box_shown"
      [] p = "combined_predicted" -> "combined_shown"

\* model.predict returns: the external model answers the request
ModelResponds ==
    /\ pc \in SentStates
    /\ request.kind = "request"
    /\ outputs' \in Responses(Len(request.images))
    /\ pc' = After(pc)
    /\ UNCHANGED <<old_h, old_w, content, pad, image, err, input_point,
                   input_label, input_box, request, mask>>
    /\ UNCHANGED <<gca, textVars, benchVars>>

\* model.predict raises: the external model's failure ends the session
ModelFails ==
    /\ pc \in SentStates
    /\ err' = "predict"
    /\ pc' = "error"
    /\ UNCHANGED <<old_h, old_w, content, pad, image, input_point, input_label,
                   input_box, request, outputs, mask>>
    /\ UNCHANGED <<gca, textVars, benchVars>>

\* the mask post-processing of the three prompt sections
Postprocess ==
    /\ pc \in PredictedStates
    /\ mask' = PostprocessMask(outputs)
    /\ pad' = FALSE
    /\ pc' = After(pc)
    /\ UNCHANGED <<old_h, old_w, content, image, err, input_point, input_label,
                   input_box, request, outputs>>
    /\ UNCHANGED <<gca, textVars, benchVars>>

\* The cell of lines 414-425, which shows the other candidates: the loop
\* over outputs["masks"][0][1:] assigns the global mask at each iteration,
\* the integer mask of that candidate, and then draws; show_points raises
\* in the first iteration when the labels are not as many as the points,
\* which ends the loop there.
OtherMasks(outs, points, labels) ==
    LET last == IF ShowPoints(points, labels, << >>).kind = "raise" THEN 2 ELSE NumMasks
    IN  OneTimes(Threshold(InferenceResizing(outs.masks[1][last], FALSE), last))

ShowOtherMasks ==
    /\ pc = "points_shown"
    /\ mask' = OtherMasks(outputs, input_point, input_label)
    /\ pad' = FALSE
    /\ pc' = "others_shown"
    /\ UNCHANGED <<old_h, old_w, content, image, err, input_point, input_label,
                   input_box, request, outputs>>
    /\ UNCHANGED <<gca, textVars, benchVars>>

\* input_box = np.array([[240, 340], [400, 500]]); outputs = model.predict({...})
PredictBox ==
    /\ pc = "others_shown"
    /\ input_box' \in BoxInputs
    /\ request' = BoxRequest(image, input_box')
    /\ pc' = "box_sent"
    /\ UNCHANGED <<old_h, old_w, content, pad, image, err, input_point,
                   input_label, outputs, mask>>
    /\ UNCHANGED <<gca, textVars, benchVars>>

\* input_box, input_point, input_label are set; outputs = model.predict({...})
PredictCombined ==
    /\ pc = "box_shown"
    /\ input_box' \in BoxInputs
    /\ input_point' \in PointInputs
    /\ input_label' \in LabelInputs
    /\ request' = CombinedRequest(image, input_point', input_label', input_box')
    /\ pc' = "combined_sent"
    /\ UNCHANGED <<old_h, old_w, content, pad, image, err, outputs, mask>>
    /\ UNCHANGED <<gca, textVars, benchVars>>

Next ==
    \/ LoadImage
    \/ DefinePointPrompt
    \/ PredictPoints
    \/ ModelResponds
    \/ ModelFails
    \/ Postprocess
    \/ ShowOtherMasks
    \/ PredictBox
    \/ PredictCombined

Spec == Init /\ [][Next]_vars

(***************************************************************************)
(* Properties of the prompt, predict and post-processing cells.            *)
(***************************************************************************)
\* C5: inference_resizing(x, pad=False) neither normalises nor pads, its
\* output has the computed preprocess_shape, and so the post-processed mask
\* of a 256 x 256 logit map is exactly 1024 x 1024, the height and width of
\* the canvas it is drawn over, whatever the picture's aspect ratio.
C5_MaskMatchesCanvas ==
    pc \in ShownStates =>
        /\ pad = FALSE
        /\ mask.src.kind = "resized"
        /\ mask.src.src.shape = <<MaskSide, MaskSide, 1>>
        /\ ResizedShape(mask.src) = PreprocessShape(MaskSide, MaskSide)
        /\ mask.shape = <<CanvasSize, CanvasSize>>
        /\ mask.shape = <<image.shape[1], image.shape[2]>>

C5_Witness ==
    /\ pc = "points_shown"
    /\ old_h = 800
    /\ old_w = 600
    /\ mask.src.kind = "resized"
    /\ mask.shape = <<1024, 1024>>

\* The row (column) of the 256 x 256 logit map whose value alone makes the
\* first and the last row (column) of the upsampled mask.
NearestLogit(i) == IF i = 0 THEN 0 ELSE MaskSide - 1

\* C6 as stated: the post-processing selects the candidate with the highest
\* score and yields a mask of the size of the canvas's unpadded region (the
\* shape the picture was resized to), not of the full padded canvas.
C6_BestScoreCropped ==
    pc \in ShownStates =>
        /\ mask.candidate = BestScore(outputs.iou_pred[1])
        /\ mask.shape = ResizedShape(image)

\* C6 amended: the post-processing takes the first candidate (index 0)
\* whatever the scores, upsamples it and thresholds it at 0.0, yielding a
\* boolean mask of the full padded canvas, 1024 x 1024; nothing is cropped.
\* (The elements are compared at the top right and bottom left corners,
\* where the upsampled logit is the logit of the same corner.)
C6_FirstCandidateFullCanvas ==
    pc \in ShownStates =>
        /\ mask.kind = "bool"
        /\ mask.candidate = 1
        /\ mask.src.src = outputs.masks[1][1]
        /\ mask.shape = <<CanvasSize, CanvasSize>>
        /\ mask.shape = <<image.shape[1], image.shape[2]>>
        /\ \A r \in ProbesInside(CanvasSize) :
              LET c == CanvasSize - 1 - r
              IN  BoolAt(mask, r, c) <=>
                      (SourceAt(LogitSamples, outputs.masks[1][1].content,
                                NearestLogit(r), NearestLogit(c), 0) > 0)

C6_Witness ==
    /\ pc = "points_shown"
    /\ old_h = 800
    /\ old_w = 600
    /\ BestScore(outputs.iou_pred[1]) = 3
    /\ mask.candidate = 1
    /\ mask.shape = <<1024, 1024>>
    /\ ResizedShape(image) = <<1024, 768>>

\* The point prompts of a request without the placeholder.
RealPoints(req) == SubSeq(req.points[1], 1, Len(input_point))

\* C7 as stated: every point and box coordinate of a request is the prompt's
\* coordinate multiplied by scale = 1024 / max(H, W), exactly.
C7_RescaledByScale ==
    pc \in SentStates =>
        /\ "points" \in request.keys =>
              \A i \in 1..Len(input_point) : \A k \in 1..2 :
                 RealPoints(request)[i][k] * Max(old_h, old_w) = input_point[i][k] * CanvasSize
        /\ "boxes" \in request.keys =>
              \A i \in 1..2 : \A k \in 1..2 :
                 request.boxes[1][1][i][k] * Max(old_h, old_w) = input_box[i][k] * CanvasSize

\* C7 amended: every point and box coordinate of a request is the prompt's
\* coordinate as written in the cell: nothing is multiplied by scale (the
\* prompts are written in the canvas's coordinates).
C7_PromptsPassedUnscaled ==
    pc \in SentStates =>
        /\ "points" \in request.keys => RealPoints(request) = input_point
        /\ "boxes" \in request.keys => request.boxes = << <<input_box>> >>
        /\ request.images = <<image>>

C7_Witness ==
    /\ pc = "points_sent"
    /\ old_h = 800
    /\ old_w = 600
    /\ input_point = << <<568, 427>> >>
    /\ request.points[1][1] = <<568, 427>>

\* A request the model's interface accepts: as many labels as points, at
\* most one box and at most one mask for each image.
WellFormed(req) ==
    /\ "points" \in req.keys => Len(req.points[1]) = Len(req.labels[1])
    /\ "boxes" \in req.keys => \A b \in 1..Len(req.boxes) : Len(req.boxes[b]) <= 1
    /\ "masks" \notin req.keys

\* C8 as stated: a request with more than one box or mask for an image, or
\* with point and label lists of different lengths, is rejected before any
\* call to the model: no such request is ever handed to model.predict.
C8_MalformedRejected ==
    request.kind = "request" => WellFormed(request)

\* C8 amended: the cells check nothing: whatever the lengths of input_point
\* and input_label, the request is built from them and handed to
\* model.predict; the cells never build more than one box, or any mask,
\* for an image.
C8_ForwardedUnchecked ==
    /\ pc = "points_sent" =>
          /\ request.kind = "request"
          /\ Len(request.points[1]) = Len(input_point) + 1
          /\ Len(request.labels[1]) = Len(input_label) + 1
    /\ pc = "combined_sent" =>
          /\ request.kind = "request"
          /\ Len(request.points[1]) = Len(input_point)
          /\ Len(request.labels[1]) = Len(input_label)
    /\ request.kind = "request" =>
          /\ "masks" \notin request.keys
          /\ \A b \in 1..Len(request.boxes) : Len(request.boxes[b]) = 1

C8_Witness ==
    /\ pc = "combined_sent"
    /\ Len(input_point) = 1
    /\ Len(input_label) = 2
    /\ request.kind = "request"
    /\ ~WellFormed(request)

\* C9: a request with point prompts and no box carries exactly one extra
\* point (0, 0) and one extra label -1, both appended last, so that N
\* points and N labels give shapes (B, N+1, 2) and (B, N+1); a request with
\* a box carries the points and labels without any placeholder.
C9_PlaceholderOnlyWithoutBox ==
    /\ pc = "points_sent" =>
          /\ request.keys = {"images", "points", "labels"}
          /\ request.points[1] = input_point \o << <<0, 0>> >>
          /\ request.labels[1] = input_label \o <<-1>>
          /\ Len(request.points) = 1
          /\ Len(request.labels) = 1
          /\ Len(input_point) = Len(input_label) =>
                Len(request.points[1]) = Len(request.labels[1])
    /\ pc = "combined_sent" =>
          /\ "boxes" \in request.keys
          /\ request.points[1] = input_point
          /\ request.labels[1] = input_label
          /\ \A i \in 1..Len(request.labels[1]) : request.labels[1][i] # -1

C9_Witness ==
    /\ pc = "points_sent"
    /\ input_point = << <<568, 427>>, <<650, 850>> >>
    /\ input_label = <<1, 0>>
    /\ request.points[1] = << <<568, 427>>, <<650, 850>>, <<0, 0>> >>
    /\ request.labels[1] = <<1, 0, -1>>

(***************************************************************************)
(* SpecShowPoints: one call show_points(coords, labels, ax) on any points   *)
(* and labels, the placeholder label -1 included.                          *)
(***************************************************************************)
\* The values a label takes: 1 foreground, 0 background, -1 placeholder.
LabelValues == {-1, 0, 1}
CoordInputs == UNION {[1..n -> {PointSamples[k] : k \in 1..Len(PointSamples)}] : n \in 1..MaxPoints}
AnyLabels == UNION {[1..n -> LabelValues] : n \in 1..MaxPoints}

NoPicture ==
    /\ old_h = 0
    /\ old_w = 0
    /\ content = 1
    /\ pad = TRUE
    /\ image = NoTensor

InitShowPoints ==
    /\ pc = "show_call"
    /\ err = "none"
    /\ NoPicture
    /\ input_point \in CoordInputs
    /\ input_label \in AnyLabels
    /\ input_box = << >>
    /\ request = NoRequest
    /\ outputs = NoOutputs
    /\ mask = NoTensor
    /\ gca = << >>
    /\ boxes = << >>
    /\ iter = 0
    /\ policy = DefaultPolicy
    /\ model = FromPreset(DefaultPolicy)
    /\ calls = << >>

CallShowPoints ==
    /\ pc = "show_call"
    /\ LET res == ShowPoints(input_point, input_label, gca)
       IN  IF res.kind = "raise"
           THEN pc' = "show_raised" /\ err' = res.error /\ gca' = gca
           ELSE pc' = "show_returned" /\ err' = err /\ gca' = res.artists
    /\ UNCHANGED <<imageVars, promptVars, textVars, benchVars>>

NextShowPoints == CallShowPoints

SpecShowPoints == InitShowPoints /\ [][NextShowPoints]_vars

(***************************************************************************)
(* Properties of show_points.                                              *)
(***************************************************************************)
\* The indices of the points labelled v, and the j-th of them.
Labelled(v) == {i \in 1..Len(input_label) : input_label[i] = v}
NthLabelled(v, j) ==
    CHOOSE i \in Labelled(v) : Cardinality({k \in Labelled(v) : k <= i}) = j

\* The markers of one scatter call, as a sequence of <<x, y>>.
Markers(artist) == [j \in 1..Len(artist.x) |-> <<artist.x[j], artist.y[j]>>]

\* C11: show_points draws a green marker for exactly the points with label
\* 1 and a red marker for exactly the points with label 0; a point with
\* label -1 (the padding placeholder) gets no marker of either colour, so
\* it is never shown as a real point. (When labels and coords differ in
\* length the call raises and draws nothing at all.)
C11_PlaceholderNeverDrawn ==
    /\ pc = "show_returned" =>
          /\ Len(input_label) = Len(input_point)
          /\ Len(gca) = 2
          /\ gca[1].color = "green"
          /\ gca[2].color = "red"
          /\ Len(gca[1].x) = Cardinality(Labelled(1))
          /\ Len(gca[2].x) = Cardinality(Labelled(0))
          /\ \A j \in 1..Len(gca[1].x) : Markers(gca[1])[j] = input_point[NthLabelled(1, j)]
          /\ \A j \in 1..Len(gca[2].x) : Markers(gca[2])[j] = input_point[NthLabelled(0, j)]
          /\ Len(gca[1].x) + Len(gca[2].x) = Len(input_point) - Cardinality(Labelled(-1))
    /\ pc = "show_raised" =>
          /\ Len(input_label) # Len(input_point)
          /\ err = "IndexError"
          /\ gca = << >>

C11_Witness ==
    /\ pc = "show_returned"
    /\ input_point = << <<568, 427>>, <<650, 850>> >>
    /\ input_label = <<-1, 1>>
    /\ Markers(gca[1]) = << <<650, 850>> >>
    /\ Markers(gca[2]) = << >>

(***************************************************************************)
(* SpecText: the text-prompt section. A detector proposes boxes for a      *)
(* caption, the boxes prompt the segmentation model, one image copy each.  *)
(***************************************************************************)
MaxBoxes == 2

\* Rows (x0, y0, x1, y1) the detector may return, and its possible answers
\* boxes[0].xyxy: an array of shape (K, 4), 0 <= K <= MaxBoxes.
BoxRows == {<<240, 340, 400, 500>>, <<100, 120, 900, 700>>}
Detections == UNION {[1..k -> BoxRows] : k \in 0..MaxBoxes}

\* a.reshape(-1): the elements of a two-dimensional array in row-major order
RECURSIVE Flatten(_)
Flatten(a) == IF a = << >> THEN << >> ELSE Head(a) \o Flatten(Tail(a))

\* flat.reshape(-1, 1, 2, 2): consecutive groups of four elements, each as
\* one 2 x 2 box
Reshape122(flat) ==
    [i \in 1..(Len(flat) \div 4) |->
        << << <<flat[4 * (i - 1) + 1], flat[4 * (i - 1) + 2]>>,
              <<flat[4 * (i - 1) + 3], flat[4 * (i - 1) + 4]>> >> >>]

\* np.repeat(image[np.newaxis, ...], n, axis=0)
Repeat(img, n) == [i \in 1..n |-> img]

\* The dictionary of the text-prompt cell:
\*   "images": np.repeat(image[np.newaxis, ...], boxes.shape[0], axis=0),
\*   "boxes": boxes.reshape(-1, 1, 2, 2)
TextRequestOneImage(img, bxs) ==
    [kind   |-> "request",
     keys   |-> {"images", "boxes"},
     images |-> <<img>>,
     points |-> << >>,
     labels |-> << >>,
     boxes  |-> << [i \in 1..Len(bxs) |-> Reshape122(Flatten(bxs))[i][1]] >>]
TextRequest(img, bxs) ==
    [kind   |-> "request",
     keys   |-> {"images", "boxes"},
     images |-> Repeat(img, Len(bxs)),
     points |-> << >>,
     labels |-> << >>,
     boxes  |-> Reshape122(Flatten(bxs))]

\* show_mask(mask, ax): the mask is drawn as an image
ShowMask(m) == [kind |-> "mask", mask |-> m]

\* show_box(box, ax): a rectangle from the first four elements of the
\* flattened array
ShowBox(box) ==
    LET b == Flatten(box)
    IN  [kind |-> "rectangle", xy |-> <<b[1], b[2]>>, w |-> b[3] - b[1], h |-> b[4] - b[2]]

\* inference_resizing(mask[0][..., None], pad=False)[..., 0], then > 0.0,
\* for the candidates `m` of one batch item
PostprocessItem(m) == Threshold(InferenceResizing(m[1], FALSE), 1)

InitText ==
    /\ pc = "text_start"
    /\ \E p \in Pictures : old_h = p[1] /\ old_w = p[2]
    /\ content \in Contents
    /\ pad = TRUE
    /\ image = NoTensor
    /\ err = "none"
    /\ Idle

\* image = np.array(keras.utils.load_img(filepath))
\* image = ops.convert_to_numpy(inference_resizing(image))
LoadTextImage ==
    /\ pc = "text_start"
    /\ LET res == InferenceResizing(Picture(old_h, old_w, content), TRUE)
       IN  IF res.kind = "raise"
           THEN pc' = "error" /\ err' = res.error /\ image' = NoTensor
           ELSE pc' = "text_image_loaded" /\ err' = err /\ image' = res
    /\ pad' = TRUE
    /\ UNCHANGED <<old_h, old_w, content, promptVars, gca, textVars, benchVars>>

\* boxes = grounding_dino.predict_with_caption(image.astype(np.uint8), "harness")
\* boxes = np.array(boxes[0].xyxy)
DetectBoxes ==
    /\ pc = "text_image_loaded"
    /\ boxes' \in Detections
    /\ pc' = "text_detected"
    /\ UNCHANGED <<err, imageVars, promptVars, gca, iter, benchVars>>

\* outputs = model.predict({...}, batch_size=1): the dictionary is built
\* and handed over
PredictText ==
    /\ pc = "text_detected"
    /\ request' = TextRequest(image, boxes)
    /\ pc' = "text_sent"
    /\ UNCHANGED <<err, imageVars, input_point, input_label, input_box, outputs,
                   mask, gca, textVars, benchVars>>

\* model.predict returns one set of masks for each image of the batch
TextModelResponds ==
    /\ pc = "text_sent"
    /\ outputs' \in Responses(Len(request.images))
    /\ pc' = "text_predicted"
    /\ UNCHANGED <<err, imageVars, input_point, input_label, input_box, request,
                   mask, gca, textVars, benchVars>>

\* model.predict raises
TextModelFails ==
    /\ pc = "text_sent"
    /\ err' = "predict"
    /\ pc' = "error"
    /\ UNCHANGED <<imageVars, promptVars, gca, textVars, benchVars>>

\* plt.figure(...); plt.imshow(image / 255.0)
OpenFigure ==
    /\ pc = "text_predicted"
    /\ gca' = <<[kind |-> "image", image |-> image]>>
    /\ iter' = 0
    /\ pc' = "text_loop"
    /\ UNCHANGED <<err, imageVars, promptVars, boxes, benchVars>>

\* one iteration of: for mask in outputs["masks"]
VisualizeMask ==
    /\ pc = "text_loop"
    /\ iter < Len(outputs.masks)
    /\ mask' = PostprocessItem(outputs.masks[iter + 1])
    /\ pad' = FALSE
    /\ gca' = gca \o <<ShowMask(mask'), ShowBox(boxes)>>
    /\ iter' = iter + 1
    /\ UNCHANGED <<pc, err, old_h, old_w, content, image, input_point, input_label,
                   input_box, request, outputs, boxes, benchVars>>

\* the loop is exhausted; plt.axis("off"); plt.show(): the figure is shown
\* and closed, which leaves the current axes empty
ShowFigure ==
    /\ pc = "text_loop"
    /\ iter = Len(outputs.masks)
    /\ gca' = << >>
    /\ pc' = "text_shown"
    /\ UNCHANGED <<err, imageVars, promptVars, textVars, benchVars>>

NextText ==
    \/ LoadTextImage
    \/ DetectBoxes
    \/ PredictText
    \/ TextModelResponds
    \/ TextModelFails
    \/ OpenFigure
    \/ VisualizeMask
    \/ ShowFigure

SpecText == InitText /\ [][NextText]_vars

(***************************************************************************)
(* Properties of the text-prompt section.                                  *)
(***************************************************************************)
\* The masks drawn so far, in order.
MasksDrawn == SelectSeq(gca, LAMBDA a : a.kind = "mask")

\* C12: for any number K >= 0 of detected boxes the request has exactly K
\* copies of the canvas as images and a boxes tensor of shape (K, 1, 2, 2)
\* whose item i is box i alone, as its two corner points; the
\* visualization loop post-processes one mask per iteration, the i-th being
\* candidate 0 of batch item i, and it ends after exactly K iterations.
C12_OneBoxPerImageCopy ==
    /\ pc \in {"text_sent", "text_predicted", "text_loop", "text_shown"} =>
          /\ request.keys = {"images", "boxes"}
          /\ Len(request.images) = Len(boxes)
          /\ Len(request.boxes) = Len(boxes)
          /\ \A i \in 1..Len(boxes) :
                /\ request.images[i] = image
                /\ Len(request.boxes[i]) = 1
                /\ request.boxes[i][1] = << <<boxes[i][1], boxes[i][2]>>,
                                            <<boxes[i][3], boxes[i][4]>> >>
    /\ pc = "text_loop" =>
          /\ iter <= Len(boxes)
          /\ Len(MasksDrawn) = iter
          /\ \A i \in 1..iter :
                /\ MasksDrawn[i].mask.kind = "bool"
                /\ MasksDrawn[i].mask.candidate = 1
                /\ MasksDrawn[i].mask.src.src = outputs.masks[i][1]
                /\ MasksDrawn[i].mask.shape = <<CanvasSize, CanvasSize>>
          /\ iter > 0 => mask = MasksDrawn[iter].mask
    /\ pc = "text_shown" =>
          /\ iter = Len(boxes)
          /\ gca = << >>
          /\ iter > 0 =>
                /\ mask.kind = "bool"
                /\ mask.candidate = 1
                /\ mask.src.src = outputs.masks[iter][1]

C12_Witness ==
    /\ pc = "text_loop"
    /\ boxes = << <<240, 340, 400, 500>>, <<100, 120, 900, 700>> >>
    /\ Len(request.images) = 2
    /\ request.boxes[2] = << << <<100, 120>>, <<900, 700>> >> >>
    /\ iter = 2
    /\ Len(MasksDrawn) = 2
    /\ MasksDrawn[1].mask # MasksDrawn[2].mask

(***************************************************************************)
(* SpecBench: the benchmarking cell of the section "Optimizing SAM".       *)
(***************************************************************************)
\* timeit.repeat(stmt, repeat=3, number=3, ...) executes stmt
\* repeat * number times.
TimeitRepeat == 3
TimeitNumber == 3
TimedCalls == TimeitRepeat * TimeitNumber

\* One execution of the timed statement model.predict({...}): the model it
\* runs on (the global `model` at that moment) and the policy in force.
TimedCall(label, mdl, pol) ==
    [label |-> label, built_under |-> mdl.built_under, policy |-> pol, preset |-> mdl.preset]

InitBench ==
    /\ pc = "bench_start"
    /\ \E p \in Pictures : old_h = p[1] /\ old_w = p[2]
    /\ content \in Contents
    /\ pad = TRUE
    /\ image = NoTensor
    /\ err = "none"
    /\ Idle

\* image = np.array(keras.utils.load_img("truck.jpg"))
\* image = inference_resizing(image)
\* input_box = np.array([[240, 340], [400, 500]])
LoadBenchImage ==
    /\ pc = "bench_start"
    /\ LET res == InferenceResizing(Picture(old_h, old_w, content), TRUE)
       IN  IF res.kind = "raise"
           THEN pc' = "error" /\ err' = res.error /\ image' = NoTensor
                /\ input_box' = input_box
           ELSE pc' = "bench_float32" /\ err' = err /\ image' = res
                /\ input_box' = << <<240, 340>>, <<400, 500>> >>
    /\ pad' = TRUE
    /\ UNCHANGED <<old_h, old_w, content, input_point, input_label, request,
                   outputs, mask, gca, textVars, benchVars>>

\* one execution of the statement timed first (float32)
TimeFloat32 ==
    /\ pc = "bench_float32"
    /\ Len(calls) < TimedCalls
    /\ request' = BoxRequest(image, input_box)
    /\ calls' = Append(calls, TimedCall("float32", model, policy))
    /\ UNCHANGED <<pc, err, imageVars, input_point, input_label, input_box,
                   outputs, mask, gca, textVars, policy, model>>

\* a timed model.predict, handed its dictionary, raises: timeit.repeat
\* propagates the exception and the cell stops
TimedPredictFails ==
    /\ pc \in {"bench_float32", "bench_float16"}
    /\ Len(calls) < (IF pc = "bench_float32" THEN 1 ELSE 2) * TimedCalls
    /\ request' = BoxRequest(image, input_box)
    /\ err' = "predict"
    /\ pc' = "error"
    /\ UNCHANGED <<imageVars, input_point, input_label, input_box, outputs, mask,
                   gca, textVars, benchVars>>

\* print(...); keras.mixed_precision.set_global_policy("mixed_float16")
SetGlobalPolicy ==
    /\ pc = "bench_float32"
    /\ Len(calls) = TimedCalls
    /\ policy' = "mixed_float16"
    /\ pc' = "bench_policy_set"
    /\ UNCHANGED <<err, imageVars, promptVars, gca, textVars, model, calls>>

\* model = keras_hub.models.SAMImageSegmenter.from_preset("sam_huge_sa1b")
RecreateModel ==
    /\ pc = "bench_policy_set"
    /\ model' = FromPreset(policy)
    /\ pc' = "bench_float16"
    /\ UNCHANGED <<err, imageVars, promptVars, gca, textVars, policy, calls>>

\* one execution of the statement timed second (float16)
TimeFloat16 ==
    /\ pc = "bench_float16"
    /\ Len(calls) < 2 * TimedCalls
    /\ request' = BoxRequest(image, input_box)
    /\ calls' = Append(calls, TimedCall("float16", model, policy))
    /\ UNCHANGED <<pc, err, imageVars, input_point, input_label, input_box,
                   outputs, mask, gca, textVars, policy, model>>

\* print(...): the cell ends
FinishBench ==
    /\ pc = "bench_float16"
    /\ Len(calls) = 2 * TimedCalls
    /\ pc' = "bench_done"
    /\ UNCHANGED <<err, imageVars, promptVars, gca, textVars, benchVars>>

NextBench ==
    \/ LoadBenchImage
    \/ TimeFloat32
    \/ TimedPredictFails
    \/ SetGlobalPolicy
    \/ RecreateModel
    \/ TimeFloat16
    \/ FinishBench

SpecBench == InitBench /\ [][NextBench]_vars

(***************************************************************************)
(* Properties of the benchmarking cell.                                    *)
(***************************************************************************)
\* The positions in `calls` of the timed calls reported under `label`.
CallsLabelled(label) == {i \in 1..Len(calls) : calls[i].label = label}

\* C14: the steps of the benchmarking cell occur in a fixed order. The
\* policy is mixed_float16 only once all float32 timing runs have been
\* made, and they were all made under float32; the model built under
\* mixed_float16 exists only once the policy has been set; every float16
\* timing run comes after every float32 one and after that re-creation;
\* hence every timed call ran on a model built under the policy in force
\* when the call was made.
C14_BenchmarkOrder ==
    /\ policy \in {DefaultPolicy, "mixed_float16"}
    /\ policy = "mixed_float16" =>
          /\ Cardinality(CallsLabelled("float32")) = TimedCalls
          /\ \A i \in CallsLabelled("float32") : calls[i].policy = DefaultPolicy
    /\ policy = DefaultPolicy => calls \in Seq({TimedCall("float32", FromPreset(DefaultPolicy), DefaultPolicy)})
    /\ model.built_under = "mixed_float16" => policy = "mixed_float16"
    /\ \A i \in CallsLabelled("float32") : \A j \in CallsLabelled("float16") : i < j
    /\ \A j \in CallsLabelled("float16") :
          /\ calls[j].policy = "mixed_float16"
          /\ calls[j].built_under = "mixed_float16"
          /\ model.built_under = "mixed_float16"
    /\ \A i \in 1..Len(calls) : calls[i].built_under = calls[i].policy
    /\ Len(calls) <= 2 * TimedCalls
    /\ pc = "bench_done" =>
          /\ Cardinality(CallsLabelled("float32")) = TimedCalls
          /\ Cardinality(CallsLabelled("float16")) = TimedCalls

C14_Witness ==
    /\ pc = "bench_done"
    /\ Len(calls) = 18
    /\ calls[9] = [label |-> "float32", built_under |-> "float32",
                   policy |-> "float32", preset |-> "sam_huge_sa1b"]
    /\ calls[10] = [label |-> "float16", built_under |-> "mixed_float16",
                    policy |-> "mixed_float16", preset |-> "sam_huge_sa1b"]
    /\ policy = "mixed_float16"
    /\ model.built_under = "mixed_float16"

====
